---- MODULE Spec2Model ----
(***************************************************************************)
(* Timed replay engine of restream: the session registry, the live-push    *)
(* (WebSocket) replay loop, the webhook replay loop and the time-code      *)
(* parser, modelled from src/src/bin/main.rs, src/src/main.rs,             *)
(* src/src/adapter/websocket.rs and src/src/adapter/webhook.rs, and the    *)
(* bridge of src/src/adapter/fireflies.rs.                                 *)
(*                                                                         *)
(* Strings that the code inspects (time codes) are sequences of one-       *)
(* character strings.  Registry keys are strings the code only compares:   *)
(* the decimal text of an i32 n is <<"i32", n>>, the text of the k-th      *)
(* generated UUID is <<"uuid", k>>, the empty string is <<"", 0>>.         *)
(***************************************************************************)
EXTENDS Integers, Sequences, FiniteSets, TLC

(* ------------------------------ bounds -------------------------------- *)

\* requests (triggers and consumer connections together) that arrive in one run
MaxTasks == 3

\* requests that arrive in one run of the race specification
RaceTasks == 4

\* caller-supplied session ids range over 1..MaxSessionId
MaxSessionId == 2

\* longest transcript of the replay specification
MaxLen == 3

\* longest generated input of the parser specification, in characters
MaxChars == 3

\* inbound frames the bridge reads in one run
MaxFrames == 3

(* --------------------------- time-code strings ------------------------ *)

Digits == <<"0", "1", "2", "3", "4", "5", "6", "7", "8", "9">>

IsDigit(ch) == \E d \in 1..10 : Digits[d] = ch

DigitVal(ch) == (CHOOSE d \in 1..10 : Digits[d] = ch) - 1

I32Max == 2147483647

I32Min == -2147483647 - 1

\* Result<i32, ParseIntError> of str::parse::<i32>
ParseOk(v) == [ok |-> TRUE, val |-> v]

ParseErr == [ok |-> FALSE, val |-> 0]

\* accumulate the digits of a non-negative literal with checked_mul / checked_add
RECURSIVE AccPos(_, _)
AccPos(s, acc) ==
    IF s = <<>> THEN ParseOk(acc)
    ELSE IF ~IsDigit(Head(s)) THEN ParseErr
    ELSE IF acc > (I32Max - DigitVal(Head(s))) \div 10 THEN ParseErr
    ELSE AccPos(Tail(s), acc * 10 + DigitVal(Head(s)))

\* accumulate the digits of a negative literal with checked_mul / checked_sub
RECURSIVE AccNeg(_, _)
AccNeg(s, acc) ==
    IF s = <<>> THEN ParseOk(acc)
    ELSE IF ~IsDigit(Head(s)) THEN ParseErr
    ELSE IF acc < -214748364 THEN ParseErr
    ELSE IF acc * 10 < I32Min + DigitVal(Head(s)) THEN ParseErr
    ELSE AccNeg(Tail(s), acc * 10 - DigitVal(Head(s)))

\* str::parse::<i32>: optional sign, then one or more decimal digits
ParseI32(s) ==
    IF s = <<>> THEN ParseErr
    ELSE IF Head(s) = "-" THEN (IF Tail(s) = <<>> THEN ParseErr ELSE AccNeg(Tail(s), 0))
    ELSE IF Head(s) = "+" THEN (IF Tail(s) = <<>> THEN ParseErr ELSE AccPos(Tail(s), 0))
    ELSE AccPos(s, 0)

\* a faulty variant that counts a part that does not parse as 1
UnwrapOr1(r) == IF r.ok THEN r.val ELSE 1

\* Result::unwrap_or(0)
UnwrapOr0(r) == IF r.ok THEN r.val ELSE 0

\* str::split(':').collect(): the parts between the colons, never empty
RECURSIVE SplitColon(_)
SplitColon(s) ==
    IF \A i \in 1..Len(s) : s[i] # ":" THEN <<s>>
    ELSE LET i == CHOOSE j \in 1..Len(s) : s[j] = ":" /\ \A k \in 1..(j - 1) : s[k] # ":"
         IN  <<SubSeq(s, 1, i - 1)>> \o SplitColon(SubSeq(s, i + 1, Len(s)))

\* exact integers beyond 32 bits, as hi * Limb + lo with 0 <= lo < Limb
Limb == 65536

Wide(n) == [hi |-> n \div Limb, lo |-> n % Limb]

\* the exact product of a wide integer and a small constant
WideMul(w, c) ==
    LET p == w.lo * c IN [hi |-> w.hi * c + p \div Limb, lo |-> p % Limb]

\* the exact sum of two wide integers
WideAdd(a, b) ==
    LET l == a.lo + b.lo IN [hi |-> a.hi + b.hi + l \div Limb, lo |-> l % Limb]

\* whether an exact result is representable as an i32
InI32(w) == -32768 <= w.hi /\ w.hi <= 32767

\* the i32 that two's-complement wrapping leaves of an exact result
WrapI32(w) ==
    LET h == w.hi % Limb IN (IF h >= 32768 THEN h - Limb ELSE h) * Limb + w.lo

\* i32 `*` and `+` as a build without overflow checks computes them (release profile)
I32Mul(a, c) == WrapI32(WideMul(Wide(a), c))

I32Add(a, b) == WrapI32(WideAdd(Wide(a), Wide(b)))

\* whether i32 `*` and `+` panic in a build with overflow checks (debug profile)
MulOverflows(a, c) == ~InI32(WideMul(Wide(a), c))

AddOverflows(a, b) == ~InI32(WideAdd(Wide(a), Wide(b)))

\* a faulty variant of parse_time_to_time that reads MM:SS as minutes only
ParseTimeDropSeconds(time_str) ==
    LET parts == SplitColon(time_str) IN
    IF Len(parts) = 3
    THEN UnwrapOr0(ParseI32(parts[1])) * 3600 + UnwrapOr0(ParseI32(parts[2])) * 60
         + UnwrapOr0(ParseI32(parts[3]))
    ELSE IF Len(parts) = 2 THEN UnwrapOr0(ParseI32(parts[1])) * 60
    ELSE IF Len(parts) = 1 THEN UnwrapOr0(ParseI32(parts[1]))
    ELSE 0

\* the values of the parts of a time code: parse::<i32>().unwrap_or(0) of each
PartValues(time_str) ==
    LET parts == SplitColon(time_str) IN [i \in 1..Len(parts) |-> UnwrapOr0(ParseI32(parts[i]))]

\* parse_time_to_time (parse_time_to_seconds in src/main.rs): the value it returns when
\* no arithmetic step panics
parse_time_to_time(time_str) ==
    LET v == PartValues(time_str) IN
    IF Len(v) = 3 THEN I32Add(I32Add(I32Mul(v[1], 3600), I32Mul(v[2], 60)), v[3])
    ELSE IF Len(v) = 2 THEN I32Add(I32Mul(v[1], 60), v[2])
    ELSE IF Len(v) = 1 THEN v[1]
    ELSE 0

\* parse_time_to_time: whether one of its `*` and `+` overflows, which panics in a build
\* with overflow checks
parse_time_overflows(time_str) ==
    LET v == PartValues(time_str) IN
    IF Len(v) = 3
    THEN \/ MulOverflows(v[1], 3600)
         \/ MulOverflows(v[2], 60)
         \/ AddOverflows(I32Mul(v[1], 3600), I32Mul(v[2], 60))
         \/ AddOverflows(I32Add(I32Mul(v[1], 3600), I32Mul(v[2], 60)), v[3])
    ELSE IF Len(v) = 2
    THEN MulOverflows(v[1], 60) \/ AddOverflows(I32Mul(v[1], 60), v[2])
    ELSE FALSE

\* a faulty variant of the wait computation that waits the distance between the offsets
WaitDistance(current_time, last_time) ==
    IF current_time > last_time THEN current_time - last_time ELSE last_time - current_time

\* a faulty variant of the wait computation that does not clamp
WaitUnclamped(current_time, last_time) == current_time - last_time

\* wait_duration of the replay loops
wait_duration(current_time, last_time) ==
    IF current_time > last_time THEN current_time - last_time ELSE 0

(* ------------------------------ strings ------------------------------- *)

\* i32::to_string
I32ToString(n) == <<"i32", n>>

\* the text of the k-th value returned by Uuid::new_v4 (values never repeat)
UuidString(k) == <<"uuid", k>>

\* String::new() / "".to_string()
EmptyString == <<"", 0>>

(* ---------------------------- transcripts ----------------------------- *)

\* the characters of the time codes used below
TC_0 == <<"0">>

TC_5 == <<"5">>

TC_12 == <<"1", "2">>

TC_0_03 == <<"0", ":", "0", "3">>

TC_x_y == <<"x", ":", "y">>

TC_neg3 == <<"-", "3">>

\* time codes of the replay specification: plain, MM:SS, malformed, negative
TimeCodes == {TC_0, TC_5, TC_12, TC_0_03, TC_x_y, TC_neg3}

\* TranscriptRecord of line i of a transcript file
Record(time, i) == [time |-> time, speaker |-> "spk", sentence |-> i]

\* the records load_transcript_from_file reads from a file with these time codes
FileOf(times) == [i \in 1..Len(times) |-> Record(times[i], i)]

\* the transcript/ directory of the concurrent specification
TranscriptDir == [f \in {"a.csv"} |-> FileOf(<<TC_5, TC_0_03>>)]

\* all time-code sequences of a length
RECURSIVE TimesOfLen(_)
TimesOfLen(n) ==
    IF n = 0 THEN {<<>>}
    ELSE {Append(s, t) : s \in TimesOfLen(n - 1), t \in TimeCodes}

\* the transcript/ directories of the replay specification: one file, any content
ReplayDirs ==
    {[f \in {"a.csv"} |-> FileOf(times)] :
        times \in UNION {TimesOfLen(n) : n \in 0..MaxLen} \cup {<<TC_0, TC_5, TC_5, TC_12>>}}

\* a transcript/ directory with two files of different records
TwoFileDir ==
    [f \in {"a.csv", "b.csv"} |->
        IF f = "a.csv" THEN FileOf(<<TC_5, TC_0_03>>) ELSE FileOf(<<TC_0, TC_12>>)]

(* ------------------------------- state -------------------------------- *)

VARIABLES
    env,          \* the run's environment: how many requests arrive, with which session ids
    program,      \* "restream" (src/bin/main.rs) or "casset" (src/main.rs)
    transcripts,  \* the transcript/ directory: file name -> records
    sessions,     \* SessionStore: the HashMap behind the Mutex
    lock,         \* the task holding the SessionStore Mutex between two steps, or NoTask
    uuids,        \* number of UUIDs generated so far
    created,      \* number of sessions created so far (history)
    api,          \* the trigger handler tasks
    ws,           \* the WebSocket connection tasks
    wh,           \* the spawned webhook broadcast tasks
    removals,     \* history of the removals that deleted a registry entry
    bridge,       \* the bridge: its read loop, its queue and its forwarder
    parser        \* one call of parse_time_to_time

vars == <<env, program, transcripts, sessions, lock, uuids, created, api, ws, wh, removals,
          bridge, parser>>

\* the variables of the replay engine
engine == <<env, program, transcripts, sessions, lock, uuids, created, api, ws, wh, removals>>

NoTask == <<"none", 0>>

ApiTask(t) == <<"api", t>>

WsTask(c) == <<"ws", c>>

\* an Option as a sequence of length 0 or 1
None == <<>>

Some(x) == <<x>>

IdleApi ==
    [pc |-> "idle", filename |-> "", session_id |-> 0, session_uuid |-> EmptyString,
     records |-> <<>>, response |-> None]

IdleWs ==
    [pc |-> "idle", session_id_str |-> EmptyString, existed |-> FALSE, session |-> None,
     idx |-> 0, last_time |-> 0, waits |-> <<>>, sent |-> <<>>, result |-> "none"]

IdleWh ==
    [pc |-> "idle", session_id |-> 0, records |-> <<>>, idx |-> 0, last_time |-> 0,
     waits |-> <<>>, posts |-> <<>>, response |-> None, result |-> "none"]

\* no bridge is running and no call of the parser is observed
NoBridge == [pc |-> "none"]

NoParser == [pc |-> "none"]

\* the replay engine right after main() has built the empty SessionStore
EngineInit(programs, dirs, requests, session_ids, nApi, nWs, nWh) ==
    /\ env = [requests |-> requests, session_ids |-> session_ids]
    /\ program \in programs
    /\ transcripts \in dirs
    /\ sessions = << >>
    /\ lock = NoTask
    /\ uuids = 0
    /\ created = 0
    /\ api = [t \in 1..nApi |-> IdleApi]
    /\ ws = [c \in 1..nWs |-> IdleWs]
    /\ wh = [w \in 1..nWh |-> IdleWh]
    /\ removals = {}

\* the state right after main() has built the empty SessionStore
InitWith(programs, dirs, requests, session_ids, nApi, nWs, nWh) ==
    /\ EngineInit(programs, dirs, requests, session_ids, nApi, nWs, nWh)
    /\ bridge = NoBridge
    /\ parser = NoParser

\* a faulty variant in which the guard outlives its block
GuardKeptAtAwait(task) == task

\* the holder of the SessionStore Mutex when a task that locked it reaches its next
\* .await: every guard in the source (the existence check, the clone, the remove, the
\* insert, the file-name update) is dropped at the end of its block or function, before
\* any wait or send
GuardAtAwait(task) == NoTask

\* HashMap::insert
MapInsert(m, k, v) == [x \in DOMAIN m \cup {k} |-> IF x = k THEN v ELSE m[x]]

\* HashMap::remove
MapRemove(m, k) == [x \in DOMAIN m \ {k} |-> m[x]]

\* HashMap::get(..).cloned()
MapGet(m, k) == IF k \in DOMAIN m THEN Some(m[k]) ELSE None

\* file names a trigger may ask for: the files of the directory and one that does not
\* exist
Filenames == DOMAIN transcripts \cup {"none.csv"}

\* load_transcript_from_file: Err for a file that does not exist
LoadTranscript(filename) == MapGet(transcripts, filename)

(* ------------------------- trigger handlers --------------------------- *)

SetApi(t, r) == api' = [api EXCEPT ![t] = r]

\* the WebsocketInfo a trigger returns: only its session_id field is modelled
WebsocketInfo(session_id) == Some(session_id)

\* the requests that have arrived so far
Arrived ==
    Cardinality({t \in DOMAIN api : api[t].pc # "idle"})
    + Cardinality({c \in DOMAIN ws : ws[c].pc # "idle"})
    + Cardinality({w \in DOMAIN wh : wh[w].pc # "idle"})

\* tasks are numbered in the order in which their requests arrive
NextToArrive(tasks, i) ==
    /\ tasks[i].pc = "idle"
    /\ Arrived < env.requests
    /\ IF i = 1 THEN TRUE ELSE tasks[i - 1].pc # "idle"

\* Api::handle_websocket_broadcast up to the call of broadcaster.broadcast
handle_websocket_broadcast(t, filename, session_id) ==
    /\ program = "restream"
    /\ NextToArrive(api, t)
    /\ IF LoadTranscript(filename) = None
       THEN /\ SetApi(t, [api[t] EXCEPT !.pc = "done", !.filename = filename,
                                       !.session_id = session_id,
                                       !.response = WebsocketInfo(EmptyString)])
            /\ uuids' = uuids
       ELSE /\ SetApi(t, [api[t] EXCEPT !.pc = "broadcast", !.filename = filename,
                                       !.session_id = session_id,
                                       !.session_uuid = UuidString(uuids + 1),
                                       !.records = LoadTranscript(filename)[1]])
            /\ uuids' = uuids + 1
    /\ UNCHANGED <<bridge, parser, env, program, transcripts, sessions, lock, created, ws, wh, removals>>

\* Api::handle_rerun up to the lock of the store
handle_rerun(t, filename) ==
    /\ program = "casset"
    /\ NextToArrive(api, t)
    /\ IF LoadTranscript(filename) = None
       THEN /\ SetApi(t, [api[t] EXCEPT !.pc = "done", !.filename = filename,
                                       !.response = WebsocketInfo(EmptyString)])
            /\ uuids' = uuids
       ELSE /\ SetApi(t, [api[t] EXCEPT !.pc = "store", !.filename = filename,
                                       !.session_uuid = UuidString(uuids + 1),
                                       !.records = LoadTranscript(filename)[1]])
            /\ uuids' = uuids + 1
    /\ UNCHANGED <<bridge, parser, env, program, transcripts, sessions, lock, created, ws, wh, removals>>

\* a faulty variant that starts the cursor past the end of the records
RewindSessionPastEnd(sid, session_id, filename, records) ==
    [sid |-> sid, session_id |-> session_id, filename |-> filename, records |-> records,
     current_index |-> Len(records) + 1]

\* the RewindSession (RerunSession in src/main.rs) a trigger builds; sid is its number
\* in the history of created sessions
RewindSession(sid, session_id, filename, records) ==
    [sid |-> sid, session_id |-> session_id, filename |-> filename, records |-> records,
     current_index |-> 0]

\* the key under which WebSocketBroadcaster::broadcast inserts the session
BroadcastKey(session_id, session_uuid) == I32ToString(session_id)

\* WebSocketBroadcaster::broadcast: build the session and insert it under the lock
broadcast(t) ==
    /\ api[t].pc = "broadcast"
    /\ lock = NoTask
    /\ sessions' = MapInsert(sessions, BroadcastKey(api[t].session_id, api[t].session_uuid),
                             RewindSession(created + 1, api[t].session_id, "",
                                           api[t].records))
    /\ created' = created + 1
    /\ lock' = GuardAtAwait(ApiTask(t))
    /\ SetApi(t, [api[t] EXCEPT !.pc = "set_filename"])
    /\ UNCHANGED <<bridge, parser, env, program, transcripts, uuids, ws, wh, removals>>

\* Api::handle_websocket_broadcast after broadcast returned Ok: set the file name of the
\* session stored under session_uuid, if any, and return the WebsocketInfo
set_filename(t) ==
    /\ api[t].pc = "set_filename"
    /\ lock = NoTask
    /\ sessions' = IF api[t].session_uuid \in DOMAIN sessions
                   THEN [sessions EXCEPT ![api[t].session_uuid].filename = api[t].filename]
                   ELSE sessions
    /\ lock' = GuardAtAwait(ApiTask(t))
    /\ SetApi(t, [api[t] EXCEPT !.pc = "done", !.response = WebsocketInfo(api[t].session_uuid)])
    /\ UNCHANGED <<bridge, parser, env, program, transcripts, uuids, created, ws, wh, removals>>

\* Api::handle_rerun: insert the session under its UUID and return the WebsocketInfo
store(t) ==
    /\ api[t].pc = "store"
    /\ lock = NoTask
    /\ sessions' = MapInsert(sessions, api[t].session_uuid,
                             RewindSession(created + 1, api[t].session_uuid,
                                           api[t].filename, api[t].records))
    /\ created' = created + 1
    /\ lock' = GuardAtAwait(ApiTask(t))
    /\ SetApi(t, [api[t] EXCEPT !.pc = "done", !.response = WebsocketInfo(api[t].session_uuid)])
    /\ UNCHANGED <<bridge, parser, env, program, transcripts, uuids, ws, wh, removals>>

(* ----------------------- live-push connections ------------------------ *)

SetWs(c, r) == ws' = [ws EXCEPT ![c] = r]

\* Message::Text of a sentinel string
SentinelFrame(text) == [sentinel |-> text, session_id |-> None, body |-> None]

SESSION_COMPLETE == SentinelFrame("SESSION_COMPLETE")

SESSION_NOT_FOUND == SentinelFrame("SESSION_NOT_FOUND")

\* Message::Text of a record: the WebSocketMessage envelope in src/bin/main.rs, the bare
\* record in src/main.rs
RecordFrame(session, record) ==
    [sentinel |-> "",
     session_id |-> IF program = "restream" THEN Some(session.session_id) ELSE None,
     body |-> Some(record)]

\* the ids a consumer may put in the path /ws/{id}: a decimal id, or the session id that
\* the latest trigger returned (every earlier one is as unknown to src/bin/main.rs)
PathIds == {I32ToString(n) : n \in env.session_ids} \cup {UuidString(k) : k \in {uuids} \ {0}}

\* handle_websocket_connection up to the existence check: the handshake and the id
\* extracted from the path (empty when the path holds none)
handle_websocket_connection(c, handshake_ok, path_id) ==
    /\ NextToArrive(ws, c)
    /\ IF handshake_ok /\ path_id # EmptyString
       THEN SetWs(c, [ws[c] EXCEPT !.pc = "check", !.session_id_str = path_id])
       ELSE SetWs(c, [ws[c] EXCEPT !.pc = "done"])
    /\ UNCHANGED <<bridge, parser, env, program, transcripts, sessions, lock, uuids, created, api, wh, removals>>

\* a faulty variant of the existence check that never returns early
PcAfterCheckAlwaysBroadcasts(found) == "lookup"

\* where handle_websocket_connection goes after the existence check: it returns when
\* the registry does not contain the id, and calls broadcast_session_messages otherwise
PcAfterCheck(found) == IF found THEN "lookup" ELSE "done"

\* handle_websocket_connection: "Check if the session exists"
check_session_exists(c) ==
    /\ ws[c].pc = "check"
    /\ lock = NoTask
    /\ lock' = GuardAtAwait(WsTask(c))
    /\ SetWs(c, [ws[c] EXCEPT !.existed = ws[c].session_id_str \in DOMAIN sessions,
                              !.pc = PcAfterCheck(ws[c].session_id_str \in DOMAIN sessions)])
    /\ UNCHANGED <<bridge, parser, env, program, transcripts, sessions, uuids, created, api, wh, removals>>

\* a faulty variant that skips the SESSION_COMPLETE frame
PcAfterRecordsSkipComplete == "remove"

\* where broadcast_session_messages goes after the for loop
PcAfterRecords == "complete"

\* broadcast_session_messages: clone the session out of the store
lookup_session(c) ==
    /\ ws[c].pc = "lookup"
    /\ lock = NoTask
    /\ lock' = GuardAtAwait(WsTask(c))
    /\ LET session == MapGet(sessions, ws[c].session_id_str) IN
       SetWs(c, [ws[c] EXCEPT !.session = session,
                              !.pc = IF session = None THEN "not_found"
                                     ELSE IF Len(session[1].records) = 0 THEN PcAfterRecords
                                     ELSE "replay"])
    /\ UNCHANGED <<bridge, parser, env, program, transcripts, sessions, uuids, created, api, wh, removals>>

\* a faulty variant that goes on to the completion frame after a failed send
PcAfterSendErrorGoesOn == "complete"

\* a faulty variant that runs the clean-up of the session after a failed send
PcAfterSendErrorCleansUp == "remove"

\* where broadcast_session_messages goes when `ws_sender.send(..).await?` fails: the `?`
\* returns the error to handle_websocket_connection, which logs it and ends
PcAfterSendError == "done"

\* a faulty variant that reads the records through the registry at every iteration
StoredRecords(c) ==
    IF ws[c].session_id_str \in DOMAIN sessions
    THEN sessions[ws[c].session_id_str].records
    ELSE ws[c].session[1].records

\* the records the for loop of broadcast_session_messages iterates over: those of the
\* clone taken at the lookup
LoopRecords(c) == ws[c].session[1].records

\* a faulty variant of the iteration that walks the records backwards
RecordAtReversed(records, idx) == records[Len(records) - idx]

\* the record the for loop visits after idx records
RecordAt(records, idx) == records[idx + 1]

\* a faulty variant that never moves the reference time
LastTimeKept(current_time, last_time) == last_time

\* the reference time of the next wait after a record was sent: last_time = current_time
LastTimeAfterSend(current_time, last_time) == current_time

\* broadcast_session_messages: one iteration of the for loop (wait, then send)
replay_record(c, send_ok) ==
    /\ ws[c].pc = "replay"
    /\ LET session == ws[c].session[1]
           record == RecordAt(LoopRecords(c), ws[c].idx)
           current_time == parse_time_to_time(record.time)
           wait == wait_duration(current_time, ws[c].last_time)
       IN  IF send_ok
           THEN SetWs(c, [ws[c] EXCEPT !.waits = Append(@, wait),
                                       !.sent = Append(@, RecordFrame(session, record)),
                                       !.last_time = LastTimeAfterSend(current_time, @),
                                       !.idx = @ + 1,
                                       !.pc = IF ws[c].idx + 1 = Len(LoopRecords(c))
                                              THEN PcAfterRecords ELSE "replay"])
           ELSE SetWs(c, [ws[c] EXCEPT !.waits = Append(@, wait),
                                       !.result = "err", !.pc = PcAfterSendError])
    /\ UNCHANGED <<bridge, parser, env, program, transcripts, sessions, lock, uuids, created, api, wh, removals>>

\* broadcast_session_messages: "Send completion message"
send_complete(c, send_ok) ==
    /\ ws[c].pc = "complete"
    /\ IF send_ok
       THEN SetWs(c, [ws[c] EXCEPT !.sent = Append(@, SESSION_COMPLETE), !.pc = "remove"])
       ELSE SetWs(c, [ws[c] EXCEPT !.result = "err", !.pc = PcAfterSendError])
    /\ UNCHANGED <<bridge, parser, env, program, transcripts, sessions, lock, uuids, created, api, wh, removals>>

\* broadcast_session_messages: "Clean up session after broadcasting is complete"
remove_session(c) ==
    /\ ws[c].pc = "remove"
    /\ lock = NoTask
    /\ lock' = GuardAtAwait(WsTask(c))
    /\ sessions' = MapRemove(sessions, ws[c].session_id_str)
    /\ removals' = IF ws[c].session_id_str \in DOMAIN sessions
                   THEN removals \cup {[by |-> ws[c].session[1].sid,
                                        gone |-> sessions[ws[c].session_id_str].sid,
                                        key |-> ws[c].session_id_str]}
                   ELSE removals
    /\ SetWs(c, [ws[c] EXCEPT !.result = "ok", !.pc = "done"])
    /\ UNCHANGED <<bridge, parser, env, program, transcripts, uuids, created, api, wh>>

\* broadcast_session_messages: the else branch of "if let Some(session)"
send_not_found(c, send_ok) ==
    /\ ws[c].pc = "not_found"
    /\ IF send_ok
       THEN SetWs(c, [ws[c] EXCEPT !.sent = Append(@, SESSION_NOT_FOUND),
                                   !.result = "ok", !.pc = "done"])
       ELSE SetWs(c, [ws[c] EXCEPT !.result = "err", !.pc = "done"])
    /\ UNCHANGED <<bridge, parser, env, program, transcripts, sessions, lock, uuids, created, api, wh, removals>>

(* -------------------------- webhook broadcasts ------------------------ *)

SetWh(w, r) == wh' = [wh EXCEPT ![w] = r]

\* the outcome of client.post(..).send().await: a transport error or a status code
TransportError == [transport_ok |-> FALSE, status |-> 0]

HttpResponse(status) == [transport_ok |-> TRUE, status |-> status]

Responses == {TransportError} \cup {HttpResponse(s) : s \in {101, 200, 302, 404, 500}}

\* an endpoint that accepts the request and never answers it
NoResponse == [transport_ok |-> FALSE, status |-> -1]

\* what the endpoint may do with a POST
Answers == Responses \cup {NoResponse}

\* the request timeout of the client: reqwest::Client::new() configures none
RequestTimeout == None

\* whether client.post(..).send().await ever resolves: a request that is never
\* answered resolves only when the client's timeout ends it
Resolves(answer) == answer # NoResponse \/ RequestTimeout # None

\* what client.post(..).send().await resolves to: a timed-out request is an Err
SendResult(answer) == IF answer = NoResponse THEN TransportError ELSE answer

\* StatusCode::is_success, is_client_error, is_server_error
is_success(status) == 200 <= status /\ status < 300

is_client_error(status) == 400 <= status /\ status < 500

is_server_error(status) == 500 <= status /\ status < 600

\* the JSON body of a record POST (BroadcastMessage) and of the completion POST
BroadcastMessage(session_id, record) ==
    [status |-> "", session_id |-> Some(session_id), body |-> Some(record)]

completion_message == [status |-> "complete", session_id |-> None, body |-> None]

\* a faulty variant that aborts on every response without a success status
PostAbortsOnAnyNonSuccess(response) ==
    ~response.transport_ok \/ ~is_success(response.status)

\* a faulty variant that aborts on transport errors only
PostAbortsOnTransportErrorOnly(response) == ~response.transport_ok

\* whether the match on the response of a record POST returns Err
PostAborts(response) ==
    \/ ~response.transport_ok
    \/ /\ ~is_success(response.status)
       /\ is_client_error(response.status) \/ is_server_error(response.status)

\* a faulty variant that leaves the loop on an error and falls through to the
\* completion POST
PcAfterAbortFallsThrough == "complete"

\* where broadcast_to_webhook goes on `return Err(..)` in the match of a record POST
PcAfterAbort == "done"

\* a faulty variant that reports a failed completion POST as a failed broadcast
CompletionResultChecked(response) == IF PostAborts(response) THEN "err" ELSE "ok"

\* what broadcast_to_webhook returns after the match on the completion POST: every arm
\* only prints, and the function ends with Ok(())
CompletionResult(response) == "ok"

\* a faulty variant in which the webhook trigger registers its session like the
\* live-push trigger does
RegistryAfterWebhookTriggerStores(session_id, records) ==
    MapInsert(sessions, I32ToString(session_id), RewindSession(0, session_id, "", records))

\* the registry after Api::handle_webhook_broadcast: the handler builds a
\* WebhookBroadcaster from the URL alone and never touches self.sessions
RegistryAfterWebhookTrigger(session_id, records) == sessions

\* Api::handle_webhook_broadcast: load the file and spawn the broadcast
handle_webhook_broadcast(w, filename, session_id) ==
    /\ program = "restream"
    /\ NextToArrive(wh, w)
    /\ sessions' = IF LoadTranscript(filename) = None THEN sessions
                   ELSE RegistryAfterWebhookTrigger(session_id, LoadTranscript(filename)[1])
    /\ IF LoadTranscript(filename) = None
       THEN SetWh(w, [wh[w] EXCEPT !.pc = "done", !.result = "bad_request"])
       ELSE SetWh(w, [wh[w] EXCEPT !.session_id = session_id,
                                   !.records = LoadTranscript(filename)[1],
                                   !.pc = IF Len(LoadTranscript(filename)[1]) = 0
                                          THEN "complete" ELSE "post"])
    /\ UNCHANGED <<bridge, parser, env, program, transcripts, lock, uuids, created, api, ws, removals>>

\* broadcast_to_webhook: one iteration of the for loop (wait, POST, match the response);
\* the task stays suspended in send().await when the request never resolves
post_record(w, answer) ==
    /\ wh[w].pc = "post"
    /\ LET record == RecordAt(wh[w].records, wh[w].idx)
           current_time == parse_time_to_time(record.time)
           wait == wait_duration(current_time, wh[w].last_time)
           issued == [wh[w] EXCEPT !.waits = Append(@, wait),
                                   !.posts = Append(@, BroadcastMessage(wh[w].session_id, record))]
           response == SendResult(answer)
       IN  IF ~Resolves(answer)
           THEN SetWh(w, [issued EXCEPT !.pc = "blocked"])
           ELSE IF PostAborts(response)
           THEN SetWh(w, [issued EXCEPT !.response = Some(response),
                                        !.result = "err", !.pc = PcAfterAbort])
           ELSE SetWh(w, [issued EXCEPT !.response = Some(response),
                                        !.last_time = current_time,
                                        !.idx = @ + 1,
                                        !.pc = IF wh[w].idx + 1 = Len(wh[w].records)
                                               THEN "complete" ELSE "post"])
    /\ UNCHANGED <<bridge, parser, env, program, transcripts, sessions, lock, uuids, created, api, ws, removals>>

\* broadcast_to_webhook: "Send completion message", whose outcome is only logged
post_complete(w, answer) ==
    /\ wh[w].pc = "complete"
    /\ LET issued == [wh[w] EXCEPT !.posts = Append(@, completion_message)] IN
       IF ~Resolves(answer)
       THEN SetWh(w, [issued EXCEPT !.pc = "blocked"])
       ELSE SetWh(w, [issued EXCEPT !.response = Some(SendResult(answer)),
                                    !.result = CompletionResult(SendResult(answer)),
                                    !.pc = "done"])
    /\ UNCHANGED <<bridge, parser, env, program, transcripts, sessions, lock, uuids, created, api, ws, removals>>

(* --------------------------- specifications --------------------------- *)

\* the steps of the trigger handler of src/bin/main.rs
TriggerNext ==
    \/ \E t \in DOMAIN api, f \in Filenames, n \in env.session_ids :
          handle_websocket_broadcast(t, f, n)
    \/ \E t \in DOMAIN api : broadcast(t)
    \/ \E t \in DOMAIN api : set_filename(t)

\* the steps of the trigger handler of src/main.rs
RerunNext ==
    \/ \E t \in DOMAIN api, f \in Filenames : handle_rerun(t, f)
    \/ \E t \in DOMAIN api : store(t)

\* the steps of a live-push connection whose session is found
ConnNext ==
    \/ \E c \in DOMAIN ws, h \in BOOLEAN, id \in PathIds \cup {EmptyString} :
          handle_websocket_connection(c, h, id)
    \/ \E c \in DOMAIN ws : check_session_exists(c)
    \/ \E c \in DOMAIN ws : lookup_session(c)
    \/ \E c \in DOMAIN ws, ok \in BOOLEAN : replay_record(c, ok)
    \/ \E c \in DOMAIN ws, ok \in BOOLEAN : send_complete(c, ok)
    \/ \E c \in DOMAIN ws : remove_session(c)

\* the step of a live-push connection whose session is gone at the lookup
NotFoundNext == \E c \in DOMAIN ws, ok \in BOOLEAN : send_not_found(c, ok)

\* the steps of the webhook broadcasts
WebhookNext ==
    \/ \E w \in DOMAIN wh, f \in Filenames, n \in env.session_ids :
          handle_webhook_broadcast(w, f, n)
    \/ \E w \in DOMAIN wh, a \in Answers : post_record(w, a)
    \/ \E w \in DOMAIN wh, a \in Answers : post_complete(w, a)

Init == InitWith({"restream"}, {TranscriptDir}, MaxTasks, 1..MaxSessionId, MaxTasks, MaxTasks, 0)

Next == TriggerNext \/ ConnNext \/ NotFoundNext

\* src/bin/main.rs: concurrent triggers and connections on one registry
Spec == Init /\ [][Next]_vars

RaceInit == InitWith({"restream"}, {TranscriptDir}, RaceTasks, {1}, RaceTasks, RaceTasks, 0)

\* src/bin/main.rs: more requests, all with the same caller-supplied session id
RaceSpec == RaceInit /\ [][Next]_vars

ReplayInit == InitWith({"restream", "casset"}, ReplayDirs, 2, {1}, 1, 1, 1)

ReplayNext == TriggerNext \/ RerunNext \/ ConnNext \/ WebhookNext

SnapshotInit == InitWith({"restream"}, {TwoFileDir}, MaxTasks, {1}, MaxTasks, MaxTasks, 0)

\* src/bin/main.rs: triggers for two different files under the same session id
SnapshotSpec == SnapshotInit /\ [][Next]_vars

\* either program: a trigger and a connection, or a webhook broadcast, over every
\* bounded transcript
ReplaySpec == ReplayInit /\ [][ReplayNext]_vars

\* transcript/ directories of the comparison of the two loops: one file, whose offsets
\* are none, increasing with a repeat, decreasing with a malformed one, or negative
EquivDirs ==
    {[f \in {"a.csv"} |-> FileOf(times)] :
        times \in {<<>>, <<TC_0, TC_5, TC_5, TC_12>>, <<TC_12, TC_x_y, TC_5>>,
                   <<TC_neg3, TC_0_03>>}}

EquivInit == InitWith({"restream"}, EquivDirs, 3, {1}, 1, 1, 1)

EquivNext == TriggerNext \/ ConnNext \/ WebhookNext

\* src/bin/main.rs: a live-push replay and a webhook broadcast of the same file
EquivSpec == EquivInit /\ [][EquivNext]_vars

\* the scheduling of the runtime: tokio's Mutex hands the lock to its waiters in FIFO
\* order and the runtime polls every woken task, so a task whose lock() can be granted
\* is not passed over for ever
LockFairness ==
    /\ \A t \in 1..MaxTasks : WF_vars(broadcast(t)) /\ WF_vars(set_filename(t))
    /\ \A c \in 1..MaxTasks :
          WF_vars(check_session_exists(c)) /\ WF_vars(lookup_session(c))
          /\ WF_vars(remove_session(c))

FairInit == InitWith({"restream"}, {TranscriptDir}, MaxTasks, {1}, MaxTasks, MaxTasks, 0)

\* src/bin/main.rs under fair scheduling of the tasks that wait for the lock, all
\* requests naming the same session id
FairSpec == FairInit /\ [][Next]_vars /\ LockFairness

(* --------------------------- parser calls ----------------------------- *)

\* the characters of the generated parser inputs
ParseChars == {"1", "7", ":", "x", "-"}

RECURSIVE StringsOfLen(_)
StringsOfLen(n) ==
    IF n = 0 THEN {<<>>}
    ELSE {Append(str, ch) : str \in StringsOfLen(n - 1), ch \in ParseChars}

\* "01:02:03", "02:05", "45"
TC_01_02_03 == <<"0", "1", ":", "0", "2", ":", "0", "3">>

TC_02_05 == <<"0", "2", ":", "0", "5">>

TC_45 == <<"4", "5">>

\* "600000:00:00", "596523:14:08", "35791395:00": time codes whose parts are i32 values
\* and whose offset is not
TC_600000_00_00 == <<"6", "0", "0", "0", "0", "0", ":", "0", "0", ":", "0", "0">>

TC_596523_14_08 == <<"5", "9", "6", "5", "2", "3", ":", "1", "4", ":", "0", "8">>

TC_35791395_00 == <<"3", "5", "7", "9", "1", "3", "9", "5", ":", "0", "0">>

\* the strings parse_time_to_time is called with
ParseInputs ==
    UNION {StringsOfLen(n) : n \in 0..MaxChars}
    \cup TimeCodes
    \cup {TC_01_02_03, TC_02_05, TC_45, TC_600000_00_00, TC_596523_14_08, TC_35791395_00}

\* the cargo profiles: overflow checks are on in "debug" and off in "release"
Builds == {"debug", "release"}

\* one call of parse_time_to_time: it returns, or it panics where an arithmetic step
\* overflows in a build with overflow checks
call_parse_time_to_time ==
    /\ parser.pc = "call"
    /\ parser' = IF parser.build = "debug" /\ parse_time_overflows(parser.input)
                  THEN [parser EXCEPT !.pc = "panicked"]
                  ELSE [parser EXCEPT !.pc = "returned",
                                      !.result = parse_time_to_time(parser.input)]
    /\ UNCHANGED <<engine, bridge>>

ParseInit ==
    /\ EngineInit({"restream"}, {TranscriptDir}, 0, {}, 0, 0, 0)
    /\ bridge = NoBridge
    /\ parser \in {[pc |-> "call", build |-> b, input |-> i, result |-> 0] :
                      b \in Builds, i \in ParseInputs}

ParseNext == call_parse_time_to_time

\* the time-code parser called on each bounded input
ParseSpec == ParseInit /\ [][ParseNext]_vars

(* ------------------------------ bridge -------------------------------- *)

\* a JSON object as far as TranscriptionEvent reads it: each field present or absent
\* (a field of the wrong JSON type counts as absent)
JsonObject(type, timestamp, speaker, text, confidence) ==
    [type |-> type, timestamp |-> timestamp, speaker |-> speaker, text |-> text,
     confidence |-> confidence]

\* an object with nothing but a "type" field, and one without any of the fields
TypeOnly(type) == JsonObject(Some(type), None, None, None, None)

NoFields == JsonObject(None, None, None, None, None)

\* objects that hold every required field of a TranscriptionEvent
PayloadAnn == JsonObject(Some("transcription"), Some(1), Some("Ann"), Some("hello"), Some(9))

PayloadBob == JsonObject(Some("transcription"), Some(2), Some("Bob"), Some("bye"), None)

PayloadTom == JsonObject(Some("transcription"), Some(3), Some("Tom"), Some("hi"), None)

\* an object without the required "text" field
PayloadNoText == JsonObject(Some("transcription"), Some(4), Some("Ann"), None, None)

\* an inbound message: Message::Text whose text is the JSON object top with the member
\* "data" (when present), Message::Text that is no JSON, Message::Close, a read error, or
\* another message (Binary, Ping, Pong)
TextFrame(top, data) == [msg |-> "Text", json |-> TRUE, top |-> top, data |-> data]

NotJsonFrame == [msg |-> "Text", json |-> FALSE, top |-> NoFields, data |-> None]

CloseFrame == [msg |-> "Close", json |-> FALSE, top |-> NoFields, data |-> None]

ErrorFrame == [msg |-> "Error", json |-> FALSE, top |-> NoFields, data |-> None]

OtherFrame == [msg |-> "Other", json |-> FALSE, top |-> NoFields, data |-> None]

\* the state of `last` before the first frame
NoFrame == [msg |-> "None", json |-> FALSE, top |-> NoFields, data |-> None]

\* the type discriminators the match of FirefliesBridge::start names
ControlTypes == {"auth.success", "auth.failed", "connection.established", "connection.error"}

BroadcastType == "transcription.broadcast"

\* the frames the source may send
Frames ==
    {NotJsonFrame, CloseFrame, ErrorFrame, OtherFrame}
    \cup {TextFrame(TypeOnly(t), None) : t \in ControlTypes}
    \cup {TextFrame(TypeOnly("connection.error"), Some(PayloadAnn))}
    \cup {TextFrame(TypeOnly(BroadcastType), d) :
             d \in {None, Some(PayloadAnn), Some(PayloadBob), Some(PayloadNoText)}}
    \cup {TextFrame(PayloadTom, None), TextFrame(TypeOnly("unknown"), None),
          TextFrame(NoFields, None)}

\* a faulty variant that accepts an object without "text"
DecodeEventLenient(obj) ==
    IF obj.type # None /\ obj.timestamp # None /\ obj.speaker # None
    THEN Some([event_type |-> obj.type[1], timestamp |-> obj.timestamp[1],
               speaker |-> obj.speaker[1],
               text |-> IF obj.text = None THEN "" ELSE obj.text[1],
               confidence |-> obj.confidence])
    ELSE None

\* serde_json::from_value::<TranscriptionEvent> / from_str::<TranscriptionEvent>: Ok when
\* "type", "timestamp", "speaker" and "text" are present, "confidence" being optional
DecodeEvent(obj) ==
    IF obj.type # None /\ obj.timestamp # None /\ obj.speaker # None /\ obj.text # None
    THEN Some([event_type |-> obj.type[1], timestamp |-> obj.timestamp[1],
               speaker |-> obj.speaker[1], text |-> obj.text[1],
               confidence |-> obj.confidence])
    ELSE None

\* a faulty variant that decodes the "data" member of a frame of any type
EventOfAnyData(frame) ==
    IF frame.msg # "Text" \/ ~frame.json THEN None
    ELSE IF frame.data # None THEN DecodeEvent(frame.data[1])
    ELSE IF frame.top.type # None /\ frame.top.type[1] \in ControlTypes \cup {BroadcastType}
    THEN None
    ELSE DecodeEvent(frame.top)

\* the event the match on a frame hands to webhook_sender.send, if any
EventOf(frame) ==
    IF frame.msg # "Text" \/ ~frame.json THEN None
    ELSE IF frame.top.type # None /\ frame.top.type[1] \in ControlTypes THEN None
    ELSE IF frame.top.type # None /\ frame.top.type[1] = BroadcastType
    THEN (IF frame.data = None THEN None ELSE DecodeEvent(frame.data[1]))
    ELSE DecodeEvent(frame.top)

\* a faulty variant: a channel of capacity 1
BoundedCapacity == Some(1)

\* the capacity of the channel FirefliesBridge::new creates: mpsc::unbounded_channel()
ChannelCapacity == None

\* whether a send on the channel has to wait for room
SendBlocks(queue) == ChannelCapacity # None /\ Len(queue) >= ChannelCapacity[1]

\* a faulty variant of recv that hands out the newest event
ChannelRecvNewest(queue) ==
    [event |-> queue[Len(queue)], rest |-> SubSeq(queue, 1, Len(queue) - 1)]

\* UnboundedReceiver::recv on a channel that is not empty
ChannelRecv(queue) == [event |-> Head(queue), rest |-> Tail(queue)]

\* the bridge and its forwarder right after FirefliesBridge::new
BridgeStart ==
    [pc |-> "start", result |-> "none", reads |-> 0, last |-> NoFrame,
     auth_ok |-> FALSE, auth_failed |-> FALSE,
     queue |-> <<>>, sent |-> <<>>, sender_dropped |-> FALSE,
     fwd_pc |-> "recv", fwd_event |-> None, received |-> <<>>, posts |-> <<>>]

\* FirefliesBridge::start: connect_async(url).await?
bridge_connect(ok) ==
    /\ bridge.pc = "start"
    /\ bridge' = [bridge EXCEPT !.pc = IF ok THEN "authenticate" ELSE "failed",
                                !.result = IF ok THEN @ ELSE "err"]
    /\ UNCHANGED <<engine, parser>>

\* FirefliesBridge::start: write.send(auth_message).await?
bridge_authenticate(ok) ==
    /\ bridge.pc = "authenticate"
    /\ bridge' = [bridge EXCEPT !.pc = IF ok THEN "reading" ELSE "failed",
                                !.result = IF ok THEN @ ELSE "err"]
    /\ UNCHANGED <<engine, parser>>

\* a faulty variant in which a read error is returned to the caller of start
StartResultErrAfterReadError(frame) == IF frame.msg = "Error" THEN "err" ELSE "ok"

\* what start returns once its read loop has ended, frame being the message that ended
\* it (NoFrame at the end of the stream): both `break`s lead to the final Ok(())
StartResultAfterLoop(frame) == "ok"

\* FirefliesBridge::start: one iteration of `while let Some(msg) = read.next().await`;
\* auth_ok and auth_failed record which authentication frames have been read
bridge_read(frame) ==
    /\ bridge.pc = "reading"
    /\ bridge.reads < MaxFrames
    /\ LET seen == [bridge EXCEPT
                       !.reads = @ + 1,
                       !.last = frame,
                       !.auth_ok = @ \/ (frame.json /\ frame.top.type = Some("auth.success")),
                       !.auth_failed = @ \/ (frame.json /\ frame.top.type = Some("auth.failed"))]
           event == EventOf(frame)
       IN  IF frame.msg \in {"Close", "Error"}
           THEN bridge' = [seen EXCEPT !.pc = "closed", !.result = StartResultAfterLoop(frame)]
           ELSE IF event = None
           THEN bridge' = seen
           ELSE IF SendBlocks(bridge.queue)
           THEN bridge' = [seen EXCEPT !.pc = "send_blocked"]
           ELSE bridge' = [seen EXCEPT !.queue = Append(@, event[1]),
                                       !.sent = Append(@, event[1])]
    /\ UNCHANGED <<engine, parser>>

\* FirefliesBridge::start: read.next() yields None, the loop ends with Ok(())
bridge_stream_ends ==
    /\ bridge.pc = "reading"
    /\ bridge' = [bridge EXCEPT !.pc = "closed", !.result = StartResultAfterLoop(NoFrame)]
    /\ UNCHANGED <<engine, parser>>

\* the owner drops the bridge after start returned: the last sender is gone
drop_bridge ==
    /\ bridge.pc \in {"closed", "failed"}
    /\ ~bridge.sender_dropped
    /\ bridge' = [bridge EXCEPT !.sender_dropped = TRUE]
    /\ UNCHANGED <<engine, parser>>

\* start_forwarding: receiver.recv().await yields the next event, or None once the
\* channel is empty and every sender is dropped
forwarder_recv ==
    /\ bridge.pc # "none"
    /\ bridge.fwd_pc = "recv"
    /\ IF bridge.queue # <<>>
       THEN bridge' = [bridge EXCEPT !.queue = ChannelRecv(bridge.queue).rest,
                                     !.fwd_event = Some(ChannelRecv(bridge.queue).event),
                                     !.received = Append(@, ChannelRecv(bridge.queue).event),
                                     !.fwd_pc = "forward"]
       ELSE /\ bridge.sender_dropped
            /\ bridge' = [bridge EXCEPT !.fwd_pc = "done"]
    /\ UNCHANGED <<engine, parser>>

\* the timeout forward_event sets on its request: .timeout(Duration::from_secs(30))
ForwardTimeout == Some(30)

\* what forward_event's send().await resolves to
ForwardResult(answer) ==
    IF answer = NoResponse /\ ForwardTimeout # None THEN TransportError ELSE answer

\* the outcome of forward_event: Err from `.await?`, or Ok after the status was logged
ForwardOutcome(response) ==
    IF ~response.transport_ok THEN "error"
    ELSE IF is_success(response.status) THEN "success"
    ELSE "status"

\* the body forward_event POSTs
ForwardPayload(event) == [source |-> "fireflies", event |-> event]

\* a faulty variant that leaves the loop when a forward fails
PcAfterForwardStopsOnError(outcome) == IF outcome = "success" THEN "recv" ELSE "done"

\* where start_forwarding goes after forward_event: a failure is printed, the loop goes on
PcAfterForward(outcome) == "recv"

\* start_forwarding: forward_event(event).await on the event just received
forwarder_forward(answer) ==
    /\ bridge.pc # "none"
    /\ bridge.fwd_pc = "forward"
    /\ answer # NoResponse \/ ForwardTimeout # None
    /\ LET outcome == ForwardOutcome(ForwardResult(answer)) IN
       bridge' = [bridge EXCEPT !.posts = Append(@, [payload |-> ForwardPayload(bridge.fwd_event[1]),
                                                     outcome |-> outcome]),
                                !.fwd_event = None,
                                !.fwd_pc = PcAfterForward(outcome)]
    /\ UNCHANGED <<engine, parser>>

BridgeInit ==
    /\ EngineInit({"restream"}, {TranscriptDir}, 0, {}, 0, 0, 0)
    /\ parser = NoParser
    /\ bridge = BridgeStart

BridgeNext ==
    \/ \E ok \in BOOLEAN : bridge_connect(ok)
    \/ \E ok \in BOOLEAN : bridge_authenticate(ok)
    \/ \E frame \in Frames : bridge_read(frame)
    \/ bridge_stream_ends
    \/ drop_bridge
    \/ forwarder_recv
    \/ \E answer \in Answers : forwarder_forward(answer)

\* the bridge reading up to MaxFrames frames while its forwarder drains the queue
BridgeSpec == BridgeInit /\ [][BridgeNext]_vars

(* ------------------------------ helpers ------------------------------- *)

\* the record bodies carried by a sequence of frames or POST bodies, in order
RECURSIVE BodiesOf(_)
BodiesOf(msgs) ==
    IF msgs = <<>> THEN <<>>
    ELSE IF Head(msgs).body = None THEN BodiesOf(Tail(msgs))
    ELSE <<Head(msgs).body[1]>> \o BodiesOf(Tail(msgs))

\* connection c has cloned a session out of the registry: its replay has started
ReplayStarted(c) == ws[c].session # None

\* connection c leaves broadcast_session_messages or handle_websocket_connection
WsReturns(c) == ws[c].pc # "done" /\ ws'[c].pc = "done"

\* trigger t has inserted its session into the registry
HasCreated(t) ==
    \/ api[t].pc = "set_filename"
    \/ api[t].pc = "done" /\ api[t].response # WebsocketInfo(EmptyString)

\* the registry key under which trigger t inserted its session
KeyOf(t) ==
    IF program = "restream" THEN I32ToString(api[t].session_id) ELSE api[t].session_uuid

\* the wait the scheduler rule prescribes before record i of records
PrescribedWait(records, i) ==
    LET cur == parse_time_to_time(records[i].time)
        prev == IF i = 1 THEN 0 ELSE parse_time_to_time(records[i - 1].time)
    IN  IF cur - prev > 0 THEN cur - prev ELSE 0

\* the frames of a complete live-push replay of a session
CompleteReplay(session) ==
    [i \in 1..Len(session.records) |-> RecordFrame(session, session.records[i])]
    \o <<SESSION_COMPLETE>>

(* ------------------------------- claims ------------------------------- *)

\* C1: every live-push replay that started for a session ends (all records sent, a
\* record send failed, or the SESSION_COMPLETE send failed) with that session absent
\* from the registry.
C1_ReplayEndsWithSessionRetired ==
    [][\A c \in DOMAIN ws :
          (WsReturns(c) /\ ReplayStarted(c)) => ws[c].session_id_str \notin DOMAIN sessions']_vars

\* C2: a connection whose session id is not in the registry gets exactly one
\* SESSION_NOT_FOUND frame and no other frame before it ends.
C2_UnknownIdGetsNotFound ==
    \A c \in DOMAIN ws :
        (ws[c].pc = "done" /\ ws[c].session_id_str # EmptyString /\ ~ws[c].existed)
            => ws[c].sent = <<SESSION_NOT_FOUND>>

\* C3: when a live-push trigger returns successfully, the registry holds the session it
\* created under exactly the session id it returns.
C3_ReturnedIdIsRegistryKey ==
    [][\A t \in DOMAIN api :
          (api[t].pc = "set_filename" /\ api'[t].pc = "done")
              => /\ api'[t].response[1] \in DOMAIN sessions'
                 /\ sessions'[api'[t].response[1]].records = api[t].records]_vars

\* C4: the records of a session are replayed to at most one connection.
C4_AtMostOneConsumer ==
    \A c1, c2 \in DOMAIN ws :
        (/\ c1 # c2
         /\ ReplayStarted(c1) /\ ReplayStarted(c2)
         /\ ws[c1].session[1].sid = ws[c2].session[1].sid)
            => BodiesOf(ws[c1].sent) = <<>> \/ BodiesOf(ws[c2].sent) = <<>>

\* C5: a session stays in the registry under its key until a replay of that very
\* session removes it: no other step removes or replaces it.
C5_PresentUntilOwnReplayRetires ==
    [][\A k \in DOMAIN sessions :
          (IF k \in DOMAIN sessions' THEN sessions'[k].sid # sessions[k].sid ELSE TRUE)
              => \E c \in DOMAIN ws :
                    /\ ws[c].pc = "remove" /\ ws'[c].pc = "done"
                    /\ ws[c].session[1].sid = sessions[k].sid]_vars

\* C6: no two sessions are ever created under the same registry key.
C6_KeysUniquePerSession ==
    \A t1, t2 \in DOMAIN api :
        (t1 # t2 /\ HasCreated(t1) /\ HasCreated(t2)) => KeyOf(t1) # KeyOf(t2)

\* C7: at most one removal deletes a registry entry on behalf of a given session, and
\* a removal for an id that is absent leaves the registry unchanged.
C7_NoSessionRetiredTwice ==
    [][/\ \A r1, r2 \in removals' : r1.by = r2.by => r1 = r2
       /\ \A c \in DOMAIN ws :
             (ws[c].pc = "remove" /\ ws'[c].pc = "done"
              /\ ws[c].session_id_str \notin DOMAIN sessions) => sessions' = sessions]_vars

\* C8: within one replay (live-push or webhook) the record bodies delivered so far are
\* always a prefix of the session's records in their original order.
C8_DeliveredIsPrefix ==
    /\ \A c \in DOMAIN ws :
          ReplayStarted(c) =>
              LET bodies == BodiesOf(ws[c].sent)
                  records == ws[c].session[1].records
              IN  Len(bodies) <= Len(records) /\ bodies = SubSeq(records, 1, Len(bodies))
    /\ \A w \in DOMAIN wh :
          LET bodies == BodiesOf(wh[w].posts)
          IN  Len(bodies) <= Len(wh[w].records)
              /\ bodies = SubSeq(wh[w].records, 1, Len(bodies))

\* a live-push replay has delivered three records whose time codes go backwards and
\* include a malformed one
C8_Witness ==
    \E c \in DOMAIN ws :
        /\ ReplayStarted(c)
        /\ Len(BodiesOf(ws[c].sent)) = 3
        /\ ws[c].session[1].records[1].time = TC_12
        /\ ws[c].session[1].records[2].time = TC_x_y
        /\ ws[c].session[1].records[3].time = TC_5

C10_RecordsThenCompleteThenRemove ==
    \A c \in DOMAIN ws :
        ReplayStarted(c) =>
            /\ (ws[c].pc = "done" /\ ws[c].result = "ok")
                   => ws[c].sent = CompleteReplay(ws[c].session[1])
            /\ (ws[c].pc = "remove" \/ ws[c].session_id_str \notin DOMAIN sessions)
                   => ws[c].sent = CompleteReplay(ws[c].session[1])

\* a replay of three records has ended with all its sends successful
C10_Witness ==
    \E c \in DOMAIN ws :
        /\ ReplayStarted(c)
        /\ ws[c].pc = "done" /\ ws[c].result = "ok"
        /\ Len(ws[c].session[1].records) = 3
        /\ ws[c].session_id_str \notin DOMAIN sessions

\* a step in which a send of connection c fails: c leaves a record send or the
\* completion send without a new frame on the connection
SendFails(c) ==
    /\ ws[c].pc \in {"replay", "complete"}
    /\ ws'[c] # ws[c]
    /\ ws'[c].sent = ws[c].sent

\* C11: when a send fails during a live-push replay, at a record or at the
\* SESSION_COMPLETE frame, the replay returns an error to its caller and nothing more
\* is ever sent on that connection.
C11_SendErrorEndsReplay ==
    [][\A c \in DOMAIN ws :
          /\ SendFails(c) => (ws'[c].result = "err" /\ ws'[c].pc = "done")
          /\ ws[c].result = "err" => ws'[c] = ws[c]]_vars

\* one replay failed at its second record and another at the SESSION_COMPLETE frame
C11_Witness ==
    \E c1, c2 \in DOMAIN ws :
        /\ ReplayStarted(c1) /\ ReplayStarted(c2)
        /\ ws[c1].pc = "done" /\ ws[c1].result = "err" /\ Len(ws[c1].sent) = 1
        /\ ws[c2].pc = "done" /\ ws[c2].result = "err"
        /\ Len(ws[c2].sent) = Len(ws[c2].session[1].records)
        /\ Len(ws[c2].sent) = 2

\* a response that is a transport error or carries an HTTP 4xx or 5xx status
IsErrorResponse(response) ==
    \/ ~response.transport_ok
    \/ 400 <= response.status /\ response.status <= 599

\* a step in which the POST of a record by broadcast w ends in an error response
RecordPostFails(w) ==
    /\ wh[w].pc = "post"
    /\ Len(wh'[w].posts) = Len(wh[w].posts) + 1
    /\ wh'[w].pc # "blocked"
    /\ IsErrorResponse(wh'[w].response[1])

\* C12: every record POST before the first failing one was issued once and succeeded;
\* when the POST of record k fails (transport error, 4xx or 5xx), exactly k record POSTs
\* have been issued, the broadcast returns an error, and it issues nothing afterwards.
C12_AbortAtFirstFailedPost ==
    /\ [](\A w \in DOMAIN wh :
             wh[w].pc = "post" => Len(BodiesOf(wh[w].posts)) = wh[w].idx)
    /\ [][\A w \in DOMAIN wh :
             /\ RecordPostFails(w) =>
                   /\ Len(BodiesOf(wh'[w].posts)) = wh[w].idx + 1
                   /\ Len(wh'[w].posts) = wh[w].idx + 1
                   /\ wh'[w].result = "err"
                   /\ wh'[w].pc = "done"
             /\ wh[w].pc = "done" => wh'[w] = wh[w]]_vars

\* HTTP 500 on the 2nd of 4 records: exactly 2 record POSTs and failure
C12_Witness ==
    \E w \in DOMAIN wh :
        /\ Len(wh[w].records) = 4
        /\ wh[w].pc = "done" /\ wh[w].result = "err"
        /\ wh[w].response = Some(HttpResponse(500))
        /\ wh[w].posts = [i \in 1..2 |-> BroadcastMessage(wh[w].session_id, wh[w].records[i])]

\* the number of completion POSTs in a sequence of POST bodies
RECURSIVE CompletionPosts(_)
CompletionPosts(posts) ==
    IF posts = <<>> THEN 0
    ELSE (IF Head(posts) = completion_message THEN 1 ELSE 0) + CompletionPosts(Tail(posts))

\* C13: the completion POST is issued at most once, only after all n record POSTs and
\* only by a broadcast that did not abort; a broadcast whose record POSTs all completed
\* goes on to issue it, and an aborted broadcast issues nothing more.
C13_CompletionPostExactlyWhenNotAborted ==
    /\ [](\A w \in DOMAIN wh :
             /\ CompletionPosts(wh[w].posts) <= 1
             /\ CompletionPosts(wh[w].posts) = 1 =>
                   /\ wh[w].posts[Len(wh[w].posts)] = completion_message
                   /\ BodiesOf(wh[w].posts) = wh[w].records
                   /\ wh[w].idx = Len(wh[w].records)
             /\ (wh[w].pc = "done" /\ wh[w].result = "ok") => CompletionPosts(wh[w].posts) = 1
             /\ wh[w].result = "err" => CompletionPosts(wh[w].posts) = 0)
    /\ [][\A w \in DOMAIN wh :
             /\ (wh[w].pc = "post" /\ wh'[w].idx = Len(wh[w].records)
                 /\ wh'[w].idx # wh[w].idx) => wh'[w].pc = "complete"
             /\ (wh[w].pc = "complete" /\ wh'[w] # wh[w]) =>
                   wh'[w].posts = Append(wh[w].posts, completion_message)
             /\ wh[w].result = "err" => wh'[w].posts = wh[w].posts]_vars

\* a broadcast of three records, one of them answered 302, has issued its completion POST
C13_Witness ==
    \E w \in DOMAIN wh :
        /\ Len(wh[w].records) = 3
        /\ wh[w].pc = "done" /\ wh[w].result = "ok"
        /\ Len(wh[w].posts) = 4
        /\ wh[w].posts[4] = completion_message

\* C14: a broadcast that has issued its completion POST and returned has returned
\* success, whatever the completion POST ended in.
C14_CompletionFailureIsNotAnError ==
    \A w \in DOMAIN wh :
        (wh[w].pc = "done" /\ CompletionPosts(wh[w].posts) = 1) => wh[w].result = "ok"

\* the completion POST of a broadcast of two records ended in HTTP 500
C14_Witness ==
    \E w \in DOMAIN wh :
        /\ Len(wh[w].records) = 2
        /\ wh[w].pc = "done"
        /\ CompletionPosts(wh[w].posts) = 1
        /\ wh[w].response = Some(HttpResponse(500))

\* C15: no broadcast stays suspended for ever in a POST that is never answered.
C15_NoPostBlocksForever ==
    \A w \in DOMAIN wh : wh[w].pc # "blocked"

\* C16: the stored cursor of a session never decreases, and it equals the number of its
\* records when the session is removed from the registry.
C16_CursorReachesEndBeforeRemoval ==
    [][\A k \in DOMAIN sessions :
          /\ (k \in DOMAIN sessions' /\ sessions'[k].sid = sessions[k].sid)
                => sessions'[k].current_index >= sessions[k].current_index
          /\ k \notin DOMAIN sessions'
                => sessions[k].current_index = Len(sessions[k].records)]_vars

\* C17: every session in the registry has 0 <= current_index <= len(records).
C17_CursorWithinRecords ==
    \A k \in DOMAIN sessions :
        /\ 0 <= sessions[k].current_index
        /\ sessions[k].current_index <= Len(sessions[k].records)

\* a session with records is in the registry while a replay of it has delivered one
C17_Witness ==
    \E c \in DOMAIN ws :
        /\ ReplayStarted(c)
        /\ Len(BodiesOf(ws[c].sent)) = 1
        /\ ws[c].session_id_str \in DOMAIN sessions
        /\ sessions[ws[c].session_id_str].sid = ws[c].session[1].sid
        /\ Len(sessions[ws[c].session_id_str].records) >= 2

\* C18: once a session has been removed from the registry, every later lookup of its
\* session id (the existence check and the clone) finds nothing.
C18_RetiredIdStaysNotFound ==
    [][\A c \in DOMAIN ws :
          (/\ ws'[c] # ws[c]
           /\ \E r \in removals : r.key = ws[c].session_id_str)
              => /\ ws[c].pc = "check" => ~ws'[c].existed
                 /\ ws[c].pc = "lookup" => ws'[c].session = None]_vars

C20_FailureAffectsNoOtherSession ==
    /\ [](\A d \in DOMAIN ws :
             (ReplayStarted(d) /\ ws[d].pc = "done" /\ ws[d].result = "ok")
                 => ws[d].sent = CompleteReplay(ws[d].session[1]))
    /\ [][\A c \in DOMAIN ws :
             (ws'[c] # ws[c] /\ (SendFails(c) \/ ws[c].result = "err")) =>
                 /\ \A k \in DOMAIN sessions :
                       sessions[k].sid # ws[c].session[1].sid
                           => (k \in DOMAIN sessions' /\ sessions'[k] = sessions[k])
                 /\ \A d \in DOMAIN ws \ {c} : ws'[d] = ws[d]]_vars

\* the replay of one session failed, the replay of another session delivered everything
C20_Witness ==
    \E c, d \in DOMAIN ws :
        /\ ReplayStarted(c) /\ ReplayStarted(d)
        /\ ws[c].session[1].sid # ws[d].session[1].sid
        /\ ws[c].pc = "done" /\ ws[c].result = "err"
        /\ ws[d].pc = "done" /\ ws[d].result = "ok"
        /\ ws[d].sent = CompleteReplay(ws[d].session[1])

\* C21: the clone a replay takes at the lookup is what the registry stores under the id
\* at that moment; no later step (insert, overwrite, removal) changes the clone or what
\* the replay delivers, which is always a prefix of the clone's records; the steps of a
\* replay leave every stored session as it is (the removal only deletes an entry).
C21_ReplayWorksOnSnapshot ==
    /\ [](\A c \in DOMAIN ws :
             ReplayStarted(c) =>
                 LET bodies == BodiesOf(ws[c].sent) IN
                 /\ Len(bodies) <= Len(ws[c].session[1].records)
                 /\ bodies = SubSeq(ws[c].session[1].records, 1, Len(bodies)))
    /\ [][\A c \in DOMAIN ws :
             /\ (ws[c].pc = "lookup" /\ ws'[c] # ws[c])
                   => ws'[c].session = MapGet(sessions, ws[c].session_id_str)
             /\ ReplayStarted(c) => ws'[c].session = ws[c].session
             /\ (ws[c].pc \in {"replay", "complete"} /\ ws'[c] # ws[c]) => sessions' = sessions
             /\ (ws[c].pc = "remove" /\ ws'[c] # ws[c])
                   => \A k \in DOMAIN sessions' : sessions'[k] = sessions[k]]_vars

\* a replay has delivered both records of its clone although the entry under its id
\* was overwritten with other records in the meantime
C21_Witness ==
    \E c \in DOMAIN ws :
        /\ ReplayStarted(c)
        /\ ws[c].pc = "complete"
        /\ BodiesOf(ws[c].sent) = ws[c].session[1].records
        /\ ws[c].session_id_str \in DOMAIN sessions
        /\ sessions[ws[c].session_id_str].records # ws[c].session[1].records

\* the offset the parsing rules give, as an exact integer: H*3600+M*60+S for three
\* parts, M*60+S for two, S for one, 0 otherwise, a part that does not parse being 0
RuleOffset(time_str) ==
    LET v == PartValues(time_str) IN
    IF Len(v) = 3
    THEN WideAdd(WideAdd(WideMul(Wide(v[1]), 3600), WideMul(Wide(v[2]), 60)), Wide(v[3]))
    ELSE IF Len(v) = 2 THEN WideAdd(WideMul(Wide(v[1]), 60), Wide(v[2]))
    ELSE IF Len(v) = 1 THEN Wide(v[1])
    ELSE Wide(0)

\* C27: every call of the parser returns, without an error, the offset the rules give
\* for its input; "01:02:03" gives 3723, "02:05" 125, "45" 45, "" 0 and "x:y" 0.
C27_ParserFollowsRules ==
    parser.pc \in {"returned", "panicked"} =>
        /\ parser.pc = "returned"
        /\ Wide(parser.result) = RuleOffset(parser.input)
        /\ parser.input = TC_01_02_03 => parser.result = 3723
        /\ parser.input = TC_02_05 => parser.result = 125
        /\ parser.input = TC_45 => parser.result = 45
        /\ parser.input = <<>> => parser.result = 0
        /\ parser.input = TC_x_y => parser.result = 0

\* a time code with a part that does not parse, or with a number of parts other than 1 to 3
Malformed(time_str) ==
    LET parts == SplitColon(time_str) IN
    Len(parts) > 3 \/ \E i \in 1..Len(parts) : ~ParseI32(parts[i]).ok

\* a time code that parses to 0 because it is malformed: no part of it parses, or it has
\* more than three parts
MalformedToZero(time_str) ==
    LET parts == SplitColon(time_str) IN
    Len(parts) > 3 \/ \A i \in 1..Len(parts) : ~ParseI32(parts[i]).ok

\* the parsed offset of the record before record i (0 before the first)
PrevOffset(records, i) ==
    IF i = 1 THEN 0 ELSE parse_time_to_time(records[i - 1].time)

\* a replay that ended in an error ended in a failed send or POST of its own
ErrorsAreDeliveryFailures ==
    /\ \A c \in DOMAIN ws :
          (ReplayStarted(c) /\ ws[c].result = "err") =>
              \/ Len(ws[c].waits) = Len(BodiesOf(ws[c].sent)) + 1
              \/ BodiesOf(ws[c].sent) = ws[c].session[1].records
    /\ \A w \in DOMAIN wh :
          wh[w].result = "err" => IsErrorResponse(wh[w].response[1])

\* C28 as stated: every record with a malformed time code is delivered with a wait of
\* zero, and a replay is only ever aborted by a failed delivery.
C28_MalformedDeliveredAtOnce ==
    /\ \A c \in DOMAIN ws :
          \A i \in 1..Len(ws[c].waits) :
              Malformed(ws[c].session[1].records[i].time) => ws[c].waits[i] = 0
    /\ \A w \in DOMAIN wh :
          \A i \in 1..Len(wh[w].waits) :
              Malformed(wh[w].records[i].time) => wh[w].waits[i] = 0
    /\ ErrorsAreDeliveryFailures

\* C28 as amended: a record whose time code parses to 0 because it is malformed, and
\* whose preceding record's parsed offset is not negative, is delivered with a wait of
\* zero; a replay is only ever aborted by a failed delivery, and one whose deliveries all
\* succeed delivers every record.
C28_MalformedToZeroDeliveredAtOnce ==
    /\ \A c \in DOMAIN ws :
          /\ \A i \in 1..Len(ws[c].waits) :
                (/\ MalformedToZero(ws[c].session[1].records[i].time)
                 /\ PrevOffset(ws[c].session[1].records, i) >= 0) => ws[c].waits[i] = 0
          /\ (ReplayStarted(c) /\ ws[c].pc = "done" /\ ws[c].result = "ok")
                => BodiesOf(ws[c].sent) = ws[c].session[1].records
    /\ \A w \in DOMAIN wh :
          /\ \A i \in 1..Len(wh[w].waits) :
                (/\ MalformedToZero(wh[w].records[i].time)
                 /\ PrevOffset(wh[w].records, i) >= 0) => wh[w].waits[i] = 0
          /\ (wh[w].pc = "done" /\ wh[w].result = "ok")
                => BodiesOf(wh[w].posts) = wh[w].records
    /\ ErrorsAreDeliveryFailures

\* a webhook broadcast delivered "5", "x:y", "12" with the waits 5, 0, 12
C28_Witness ==
    \E w \in DOMAIN wh :
        /\ wh[w].pc = "done" /\ wh[w].result = "ok"
        /\ Len(wh[w].records) = 3
        /\ [i \in 1..3 |-> wh[w].records[i].time] = <<TC_5, TC_x_y, TC_12>>
        /\ wh[w].waits = <<5, 0, 12>>

RECURSIVE SumSeq(_)
SumSeq(xs) == IF xs = <<>> THEN 0 ELSE Head(xs) + SumSeq(Tail(xs))

\* the parsed offsets of the first n records
Offsets(records, n) == [i \in 1..n |-> parse_time_to_time(records[i].time)]

\* C29 as stated: the waits issued so far never add up to more than the parsed offsets
\* of the records they were issued for.
C29_TotalWaitWithinOffsets ==
    /\ \A c \in DOMAIN ws :
          ReplayStarted(c) =>
              SumSeq(ws[c].waits) <= SumSeq(Offsets(ws[c].session[1].records, Len(ws[c].waits)))
    /\ \A w \in DOMAIN wh :
          SumSeq(wh[w].waits) <= SumSeq(Offsets(wh[w].records, Len(wh[w].waits)))

\* no parsed offset among the first n records is negative
NoNegativeOffset(records, n) == \A i \in 1..n : Offsets(records, n)[i] >= 0

\* C29 as amended: the same bound, for the record sequences none of whose parsed offsets
\* is negative (out-of-order and malformed time codes included).
C29_TotalWaitWithinNonNegativeOffsets ==
    /\ \A c \in DOMAIN ws :
          (ReplayStarted(c) /\ NoNegativeOffset(ws[c].session[1].records, Len(ws[c].waits))) =>
              SumSeq(ws[c].waits) <= SumSeq(Offsets(ws[c].session[1].records, Len(ws[c].waits)))
    /\ \A w \in DOMAIN wh :
          NoNegativeOffset(wh[w].records, Len(wh[w].waits)) =>
              SumSeq(wh[w].waits) <= SumSeq(Offsets(wh[w].records, Len(wh[w].waits)))

\* a live-push replay of "12", "x:y", "5" has waited 12, 0, 5: as long as the offsets
\* add up to
C29_Witness ==
    \E c \in DOMAIN ws :
        /\ ReplayStarted(c)
        /\ Len(ws[c].session[1].records) = 3
        /\ [i \in 1..3 |-> ws[c].session[1].records[i].time] = <<TC_12, TC_x_y, TC_5>>
        /\ ws[c].waits = <<12, 0, 5>>

(* --------------------------- bridge claims ---------------------------- *)

\* the events of the frames read so far, by speaker
Speakers(events) == [i \in 1..Len(events) |-> events[i].speaker]

\* a step of the read loop that queued an event
Queues == bridge'.sent # bridge.sent

\* an object with every field TranscriptionEvent requires
HasRequiredFields(obj) ==
    obj.type # None /\ obj.timestamp # None /\ obj.speaker # None /\ obj.text # None

\* C22 (as stated): an event is queued only for a frame whose type is
\* "transcription.broadcast"; frames of every other type, unrecognized ones included,
\* never queue an event
C22_OnlyBroadcastFramesQueue ==
    [][Queues => bridge'.last.top.type = Some(BroadcastType)]_vars

\* C22 (amended): an event is queued only for a "transcription.broadcast" frame whose
\* data decodes, or for a frame whose type is missing or not one of the named ones and
\* whose whole text decodes as an event; frames of the four control types never queue
C22_OnlyTranscriptionFramesQueue ==
    [][Queues =>
          LET frame == bridge'.last
              type == frame.top.type
          IN  /\ frame.msg = "Text" /\ frame.json
              /\ \/ /\ type = Some(BroadcastType)
                    /\ frame.data # None
                    /\ HasRequiredFields(frame.data[1])
                 \/ /\ type = None \/ type[1] \notin ControlTypes \cup {BroadcastType}
                    /\ HasRequiredFields(frame.top)]_vars

\* a control frame queued nothing, then a frame of type "transcription" holding an event
\* at top level was queued
C22_Witness ==
    /\ bridge.reads = 2
    /\ bridge.last = TextFrame(PayloadTom, None)
    /\ Speakers(bridge.sent) = <<"Tom">>
    /\ bridge.auth_ok

\* a step of the read loop that read a "transcription.broadcast" frame
ReadsBroadcast ==
    /\ bridge.pc = "reading"
    /\ bridge'.reads = bridge.reads + 1
    /\ bridge'.last.top.type = Some(BroadcastType)

\* C23: a "transcription.broadcast" frame with a valid payload adds exactly one event with
\* the payload's speaker, text and confidence; one with an invalid payload adds none; in
\* both cases the read loop goes on
C23_BroadcastPayloadQueuedOnce ==
    [][ReadsBroadcast =>
          LET data == bridge'.last.data IN
          /\ bridge'.pc = "reading"
          /\ IF data # None /\ HasRequiredFields(data[1])
             THEN /\ Len(bridge'.sent) = Len(bridge.sent) + 1
                  /\ SubSeq(bridge'.sent, 1, Len(bridge.sent)) = bridge.sent
                  /\ bridge'.queue = Append(bridge.queue, bridge'.sent[Len(bridge'.sent)])
                  /\ LET event == bridge'.sent[Len(bridge'.sent)] IN
                     /\ event.speaker = data[1].speaker[1]
                     /\ event.text = data[1].text[1]
                     /\ event.confidence = data[1].confidence
             ELSE /\ bridge'.sent = bridge.sent
                  /\ bridge'.queue = bridge.queue]_vars

\* a valid payload was queued, then a payload without text was read and dropped, and the
\* loop is reading on
C23_Witness ==
    /\ bridge.pc = "reading"
    /\ bridge.reads = 2
    /\ bridge.last = TextFrame(TypeOnly(BroadcastType), Some(PayloadNoText))
    /\ Len(bridge.sent) = 1
    /\ bridge.sent[1].speaker = "Ann"
    /\ bridge.sent[1].text = "hello"
    /\ bridge.sent[1].confidence = Some(9)

\* the events of the forward attempts made so far
Forwarded == [i \in 1..Len(bridge.posts) |-> bridge.posts[i].payload.event]

\* C24: the forwarder makes one POST per queued event, in queue order, and a failed
\* forward never stops it: it ends only when the channel is closed and every queued event
\* has had its attempt
C24_OnePostPerEventInOrder ==
    /\ Len(bridge.posts) <= Len(bridge.sent)
    /\ Forwarded = SubSeq(bridge.sent, 1, Len(bridge.posts))
    /\ Len(bridge.received) = Len(bridge.posts) + (IF bridge.fwd_pc = "forward" THEN 1 ELSE 0)
    /\ bridge.fwd_pc = "done" => bridge.sender_dropped /\ Forwarded = bridge.sent

\* three events were queued; the first forward failed in transport, the second got a
\* non-success status, and the third was still forwarded
C24_Witness ==
    /\ Len(bridge.posts) = 3
    /\ bridge.posts[1].outcome = "error"
    /\ bridge.posts[2].outcome = "status"
    /\ bridge.posts[3].outcome = "success"
    /\ Speakers(Forwarded) = <<"Ann", "Bob", "Tom">>
    /\ bridge.fwd_pc = "done"

\* C25: the received sequence is always a prefix of the sent sequence, the rest of it
\* being what the channel still holds
C25_ReceivedIsPrefixOfSent ==
    /\ Len(bridge.received) <= Len(bridge.sent)
    /\ bridge.received = SubSeq(bridge.sent, 1, Len(bridge.received))
    /\ bridge.sent = bridge.received \o bridge.queue

\* three different events went through the channel while two of them were waiting in it
C25_Witness ==
    /\ Len(bridge.received) = 3
    /\ Speakers(bridge.received) = <<"Tom", "Ann", "Bob">>
    /\ bridge.received[2].confidence = Some(9)
    /\ bridge.queue = <<>>

\* C26: the read loop never waits for room in the channel
C26_ReadLoopNeverBlocks == bridge.pc # "send_blocked"

\* every frame read was queued while the forwarder has not received one event
C26_Witness ==
    /\ Len(bridge.queue) = MaxFrames
    /\ bridge.reads = MaxFrames
    /\ bridge.received = <<>>
    /\ bridge.pc = "reading"

\* C30: no event is queued before an authentication-success frame or after an
\* authentication-failure frame
C30_QueuedOnlyWhileAuthenticated ==
    [][Queues => bridge.auth_ok /\ ~bridge.auth_failed]_vars

(* ---------------------- registry and scheduler claims ----------------- *)

\* connection c has been sent the SESSION_NOT_FOUND frame
GotNotFound(c) == \E i \in 1..Len(ws[c].sent) : ws[c].sent[i] = SESSION_NOT_FOUND

\* C31: SESSION_NOT_FOUND is sent on a connection only when the session was present at
\* the connection's existence check and a replay removed it before the connection's own
\* lookup; a connection whose id is absent or empty at the existence check ends without
\* any frame.
C31_NotFoundOnlyAfterLostRace ==
    \A c \in DOMAIN ws :
        /\ (ws[c].pc = "not_found" \/ GotNotFound(c)) =>
              /\ ws[c].existed
              /\ ws[c].session = None
              /\ \E r \in removals : r.key = ws[c].session_id_str
        /\ GotNotFound(c) => ws[c].sent = <<SESSION_NOT_FOUND>>
        /\ (ws[c].pc = "lookup" /\ ws[c].session_id_str \notin DOMAIN sessions) =>
              \E r \in removals : r.key = ws[c].session_id_str
        /\ (ws[c].pc = "done" /\ ~ws[c].existed) => ws[c].sent = <<>>

\* one connection lost the race against another replay and got SESSION_NOT_FOUND; a
\* later connection with an id that is not in the registry ended without a frame
C31_Witness ==
    \E c, d \in DOMAIN ws :
        /\ ws[c].existed /\ ws[c].pc = "done" /\ ws[c].sent = <<SESSION_NOT_FOUND>>
        /\ ws[d].pc = "done" /\ ws[d].session_id_str # EmptyString /\ ~ws[d].existed
        /\ ws[d].sent = <<>>

\* connection c removes the registry entry of its id in this step
RemovesKey(c, k) ==
    /\ ws[c].pc = "remove" /\ ws'[c].pc = "done"
    /\ ws[c].session_id_str = k

\* C32: a session leaves the registry only in the removal step of a replay that a
\* connection started for its key; without such a connection it stays for ever.
C32_SessionLeavesOnlyByReplayOfItsKey ==
    [][\A k \in DOMAIN sessions :
          (IF k \in DOMAIN sessions' THEN sessions'[k].sid # sessions[k].sid ELSE TRUE)
              => \E c \in DOMAIN ws : RemovesKey(c, k)]_vars

\* a step of a webhook trigger or of its background broadcast
WebhookSteps == wh' # wh

\* C33: a webhook trigger and its background broadcast leave the session registry as it
\* is on every path: no entry is created, replaced or removed, and the lock is not taken.
C33_WebhookLeavesRegistryAlone ==
    [][WebhookSteps =>
          /\ sessions' = sessions
          /\ created' = created
          /\ removals' = removals
          /\ lock' = lock]_vars

\* a webhook broadcast ran to a failed completion POST while a session sat in the
\* registry, which still holds it
C33_Witness ==
    \E w \in DOMAIN wh :
        /\ wh[w].pc = "done"
        /\ Len(wh[w].records) = 2
        /\ CompletionPosts(wh[w].posts) = 1
        /\ wh[w].response = Some(HttpResponse(500))
        /\ created = 1
        /\ \E k \in DOMAIN sessions : sessions[k].sid = 1

\* a step in which the POST of a record by broadcast w resolves
RecordPostResolves(w) ==
    /\ wh[w].pc = "post"
    /\ Len(wh'[w].posts) = Len(wh[w].posts) + 1
    /\ wh'[w].pc # "blocked"

\* C34: a webhook broadcast aborts at a record exactly when the record's POST ends in a
\* transport error or a 4xx/5xx status; after any other response (1xx and 3xx included)
\* it proceeds to the next record, or to the completion POST after the last one.
C34_AbortExactlyOnErrorResponse ==
    [][\A w \in DOMAIN wh :
          RecordPostResolves(w) =>
              IF IsErrorResponse(wh'[w].response[1])
              THEN /\ wh'[w].result = "err"
                   /\ wh'[w].pc = "done"
                   /\ wh'[w].idx = wh[w].idx
              ELSE /\ wh'[w].result = "none"
                   /\ wh'[w].idx = wh[w].idx + 1
                   /\ wh'[w].pc = IF wh'[w].idx < Len(wh[w].records)
                                  THEN "post" ELSE "complete"]_vars

\* the second of three records was answered 302 and the broadcast is about to POST the
\* third
C34_Witness ==
    \E w \in DOMAIN wh :
        /\ Len(wh[w].records) = 3
        /\ wh[w].pc = "post"
        /\ wh[w].idx = 2
        /\ Len(wh[w].posts) = 2
        /\ wh[w].response = Some(HttpResponse(302))

\* the places at which a trigger and a connection call sessions.lock().await
ApiLockPoints == {"broadcast", "set_filename"}

WsLockPoints == {"check", "lookup", "remove"}

\* no task is waiting for the lock
NoLockWaiter ==
    /\ \A t \in DOMAIN api : api[t].pc \notin ApiLockPoints
    /\ \A c \in DOMAIN ws : ws[c].pc \notin WsLockPoints

Prefix(xs, n) == SubSeq(xs, 1, IF n < Len(xs) THEN n ELSE Len(xs))

\* connection c and broadcast w have both run to their end without a failed delivery
BothDelivered(c, w) ==
    /\ ws[c].pc = "done" /\ ws[c].result = "ok"
    /\ wh[w].pc = "done" /\ wh[w].result = "ok"

ReadsFrame == bridge.pc = "reading" /\ bridge'.reads = bridge.reads + 1

\* C37: Closed is terminal for the bridge: a close frame, a read error and the end of the
\* stream end the read loop, start returns Ok also after a read error, and nothing is
\* read or queued afterwards; a binary, ping or pong frame neither ends the loop nor
\* queues an event.
C37_ClosedIsTerminal ==
    [][/\ bridge.pc = "closed" =>
             /\ bridge.result = "ok"
             /\ bridge'.pc = "closed" /\ bridge'.result = "ok"
             /\ bridge'.sent = bridge.sent
             /\ bridge'.reads = bridge.reads
       /\ (ReadsFrame /\ bridge'.last.msg \in {"Close", "Error"}) =>
             /\ bridge'.pc = "closed" /\ bridge'.result = "ok"
             /\ bridge'.sent = bridge.sent
       /\ (bridge.pc = "reading" /\ bridge'.pc # "reading") =>
             bridge'.pc = "closed" /\ bridge'.result = "ok"
       /\ (ReadsFrame /\ bridge'.last.msg = "Other") =>
             /\ bridge'.pc = "reading"
             /\ bridge'.sent = bridge.sent
             /\ bridge'.queue = bridge.queue]_vars

\* the loop queued an event, then ended on a read error before it had read every frame
\* it might have; start has returned Ok and the forwarder has drained the queue
C37_Witness ==
    /\ bridge.pc = "closed"
    /\ bridge.result = "ok"
    /\ bridge.last = ErrorFrame
    /\ bridge.reads = 2
    /\ Len(bridge.sent) = 1
    /\ bridge.fwd_pc = "done"

\* broadcast w has loaded a transcript without records
EmptyBroadcast(w) ==
    /\ wh[w].pc \in {"complete", "blocked", "done"}
    /\ wh[w].result # "bad_request"
    /\ wh[w].records = <<>>

\* C38: a replay of a session without records issues no wait and no record message: a
\* live-push replay that ends without a failed send has sent exactly one SESSION_COMPLETE
\* frame and removed the session; a webhook broadcast issues exactly one completion POST
\* and, having returned, has returned success.
C38_EmptySessionOnlyCompletes ==
    /\ \A c \in DOMAIN ws :
          (ReplayStarted(c) /\ ws[c].session[1].records = <<>>) =>
              /\ ws[c].waits = <<>>
              /\ ws[c].pc \in {"complete", "remove", "done"}
              /\ ws[c].sent \in {<<>>, <<SESSION_COMPLETE>>}
              /\ ws[c].pc = "complete" => ws[c].sent = <<>>
              /\ ws[c].pc = "remove" => ws[c].sent = <<SESSION_COMPLETE>>
              /\ (ws[c].pc = "done" /\ ws[c].result = "ok") =>
                    /\ ws[c].sent = <<SESSION_COMPLETE>>
                    /\ ws[c].session_id_str \notin DOMAIN sessions
    /\ \A w \in DOMAIN wh :
          EmptyBroadcast(w) =>
              /\ wh[w].waits = <<>>
              /\ wh[w].pc = "complete" => wh[w].posts = <<>>
              /\ wh[w].pc # "complete" => wh[w].posts = <<completion_message>>
              /\ wh[w].pc = "done" => wh[w].result = "ok"

\* a live-push replay of a file without records has removed its session after the one
\* SESSION_COMPLETE frame
C38_Witness ==
    \E c \in DOMAIN ws :
        /\ ReplayStarted(c)
        /\ ws[c].session[1].records = <<>>
        /\ ws[c].pc = "done" /\ ws[c].result = "ok"
        /\ ws[c].sent = <<SESSION_COMPLETE>>
        /\ sessions = << >>

\* the largest element of a non-empty sequence of integers
MaxOf(xs) == CHOOSE m \in {xs[i] : i \in 1..Len(xs)} : \A i \in 1..Len(xs) : xs[i] <= m

\* the elements of a sequence never decrease
NonDecreasing(xs) == \A i \in 1..Len(xs) - 1 : xs[i] <= xs[i + 1]

\* the two statements of C39 about the waits issued for the first i of the records
CumulativeUpTo(records, waits, i) ==
    LET offsets == Offsets(records, i)
        total == SumSeq(SubSeq(waits, 1, i))
    IN  NoNegativeOffset(records, i) =>
            /\ NonDecreasing(offsets) => total = offsets[i]
            /\ total >= MaxOf(offsets)

\* C39: when the parsed offsets are non-negative and non-decreasing, the waits issued up
\* to and including record i add up to the offset of record i; for any non-negative
\* offsets they add up to at least the largest offset seen so far.
C39_WaitsAreCumulativeOffsets ==
    /\ \A c \in DOMAIN ws :
          \A i \in 1..Len(ws[c].waits) :
              CumulativeUpTo(ws[c].session[1].records, ws[c].waits, i)
    /\ \A w \in DOMAIN wh :
          \A i \in 1..Len(wh[w].waits) :
              CumulativeUpTo(wh[w].records, wh[w].waits, i)

\* the offsets 5, 3, 12 were replayed with the waits 5, 0, 9, which add up to 14
C39_Witness ==
    \E c \in DOMAIN ws :
        /\ ReplayStarted(c)
        /\ Len(ws[c].session[1].records) = 3
        /\ [i \in 1..3 |-> ws[c].session[1].records[i].time] = <<TC_5, TC_0_03, TC_12>>
        /\ ws[c].waits = <<5, 0, 9>>

====
